---------------------------- MODULE Spec2Model ----------------------------
(***************************************************************************)
(* A model of app.py (HAR -> orders CSV): the payload decoder, the order   *)
(* extractor, the exchange filter, the archive loader, the report          *)
(* serializer and the driver loop that runs them over the uploaded files.  *)
(*                                                                         *)
(* Text is a sequence of code points and a byte string a sequence of       *)
(* integers 0..255.  A decoded JSON value (what json.loads returns) is a   *)
(* tagged record: null, bool, int, str, list, dict, plus bytes for the     *)
(* binary input decode_content accepts.                                    *)
(***************************************************************************)
EXTENDS Integers, Sequences, FiniteSets, TLC

VARIABLES
    pc,             \* position of the function or loop being run
    exc,            \* "none", "caught" (absorbed by an except clause) or "raised" (left the function)
    data,           \* extract_orders: the decoded payload
    order_list,     \* extract_orders: the sequence iterated by the for loop
    k,              \* extract_orders: index of the order entry being processed
    orders,         \* extract_orders: the records collected so far
    phone_sources,  \* extract_orders: the phone source tally
    body,           \* decode_content: the argument as the caller passed it
    content,        \* decode_content: the local `content` (reassigned by strip)
    result,         \* decode_content: the value returned
    har_data,       \* extract_data: the capture document
    entries,        \* extract_data: the sequence iterated by the for loop
    entry_index,    \* extract_data: index of the entry being processed
    extracted_data, \* extract_data: the records collected so far
    total_phone_sources,    \* extract_data: the summed tallies
    rows,           \* to_csv_bytes: the records to serialize
    safe_rows,      \* to_csv_bytes: the records with the Excel-safe Order ID
    row_index,      \* to_csv_bytes: index of the record being copied or written
    buf,            \* to_csv_bytes: the text written so far
    csv_bytes,      \* to_csv_bytes: the bytes returned; the driver's csv_bytes
    uploaded,       \* driver: the uploaded files, each a byte string
    file_index,     \* driver: index of the file being processed
    all_rows,       \* driver: the merged records
    totals          \* driver: the merged tally

ordersVars == <<data, order_list, k, orders, phone_sources>>
decodeVars == <<body, content, result>>
dataVars   == <<har_data, entries, entry_index, extracted_data, total_phone_sources>>
csvVars    == <<rows, safe_rows, row_index, buf, csv_bytes>>
driverVars == <<uploaded, file_index, all_rows, totals>>
vars == <<pc, exc, ordersVars, decodeVars, dataVars, csvVars, driverVars>>

---------------------------------------------------------------------------
(* Bounds of the model *)

MaxOrders == 2      \* longest order list drawn for extract_orders
MaxTokens == 3      \* most fragments a body drawn for decode_content is made of
MaxEntries == 3     \* longest entries list drawn for extract_data
MaxRows == 2        \* most records drawn for to_csv_bytes
MaxFiles == 2       \* most files uploaded to the driver

---------------------------------------------------------------------------
(* Text constants of the program, as code points *)

K_code         == <<99, 111, 100, 101>>                                  \* 'code'
K_orderList    == <<111, 114, 100, 101, 114, 76, 105, 115, 116>>         \* 'orderList'
K_buyerInfo    == <<98, 117, 121, 101, 114, 73, 110, 102, 111>>          \* 'buyerInfo'
K_commonInfo   == <<99, 111, 109, 109, 111, 110, 73, 110, 102, 111>>     \* 'commonInfo'
K_acceptInfo   == <<97, 99, 99, 101, 112, 116, 73, 110, 102, 111>>       \* 'acceptInfo'
K_rechargeData == <<114, 101, 99, 104, 97, 114, 103, 101, 68, 97, 116, 97>>  \* 'rechargeData'
K_content      == <<99, 111, 110, 116, 101, 110, 116>>                   \* 'content'
K_phone        == <<112, 104, 111, 110, 101>>                            \* 'phone'
K_nickName     == <<110, 105, 99, 107, 78, 97, 109, 101>>                \* 'nickName'
K_orderId      == <<111, 114, 100, 101, 114, 73, 100>>                   \* 'orderId'
K_statusStr    == <<115, 116, 97, 116, 117, 115, 83, 116, 114>>          \* 'statusStr'

---------------------------------------------------------------------------
(* Python values *)

JNull     == [t |-> "null"]
JBool(b)  == [t |-> "bool", b |-> b]
JInt(i)   == [t |-> "int", n |-> i]
JFloat(x) == [t |-> "float", x |-> x]      \* a float, kept as the text of its literal
JStr(s)   == [t |-> "str", s |-> s]
JList(l)  == [t |-> "list", l |-> l]
JDict(d)  == [t |-> "dict", d |-> d]
JBytes(y) == [t |-> "bytes", y |-> y]

EmptyStr  == JStr(<<>>)
EmptyDict == JDict(<<>>)
EmptyList == JList(<<>>)

IsDict(v) == v.t = "dict"
IsStr(v)  == v.t = "str"
IsList(v) == v.t = "list"

\* a float literal denotes zero: every digit of its mantissa is 0 (0.0, -0.0, 0e5)
RECURSIVE MantissaZero(_, _)
MantissaZero(x, i) ==
    IF i > Len(x) \/ x[i] \in {101, 69} THEN TRUE
    ELSE IF x[i] \in {48, 45, 46} THEN MantissaZero(x, i + 1)
    ELSE FALSE

FloatIsZero(x) == MantissaZero(x, 1)

\* bool(v): the truth value Python gives a value in `if v` / `not v`
Truthy(v) ==
    CASE v.t = "null"  -> FALSE
      [] v.t = "bool"  -> v.b
      [] v.t = "int"   -> v.n # 0
      [] v.t = "float" -> ~FloatIsZero(v.x)
      [] v.t = "str"   -> v.s # <<>>
      [] v.t = "list"  -> v.l # <<>>
      [] v.t = "dict"  -> DOMAIN v.d # {}
      [] v.t = "bytes" -> v.y # <<>>

\* d.get(key, default) on a dict d
Get(d, key, default) == IF key \in DOMAIN d.d THEN d.d[key] ELSE default

\* v != 0: Python compares numbers by value, and bool is a subclass of int
NotEqualZero(v) ==
    ~ \/ (v.t = "int" /\ v.n = 0)
      \/ (v.t = "bool" /\ v.b = FALSE)
      \/ (v.t = "float" /\ FloatIsZero(v.x))

\* the concatenation of a sequence of sequences
RECURSIVE Cat(_)
Cat(ts) ==
    IF Len(ts) = 0 THEN <<>>
    ELSE IF Len(ts) = 1 THEN ts[1]
    ELSE Cat(SubSeq(ts, 1, Len(ts) \div 2)) \o Cat(SubSeq(ts, Len(ts) \div 2 + 1, Len(ts)))

RECURSIVE SetToSeq(_)
SetToSeq(S) == IF S = {} THEN <<>>
               ELSE LET x == CHOOSE y \in S : TRUE IN <<x>> \o SetToSeq(S \ {x})

Iterable(v) == v.t \in {"list", "str", "dict"}

\* the sequence a for loop runs over: the items of a list, the characters of a
\* str, the keys of a dict
Iter(v) ==
    CASE v.t = "list" -> v.l
      [] v.t = "str"  -> [i \in 1..Len(v.s) |-> JStr(<<v.s[i]>>)]
      [] v.t = "dict" -> LET ks == SetToSeq(DOMAIN v.d) IN [i \in 1..Len(ks) |-> JStr(ks[i])]

---------------------------------------------------------------------------
(* re.search(r'(1[3-9]\d{9})', s) *)

Digits == 48..57

\* the pattern matches s at position i
MatchAt(s, i) ==
    /\ i + 10 <= Len(s)
    /\ s[i] = 49
    /\ s[i + 1] \in 51..57
    /\ \A j \in 2..10 : s[i + j] \in Digits

NoMatch == [found |-> FALSE, group |-> <<>>]

RECURSIVE Scan(_, _)
Scan(s, i) ==
    IF i + 10 > Len(s) THEN NoMatch
    ELSE IF MatchAt(s, i) THEN [found |-> TRUE, group |-> SubSeq(s, i, i + 10)]
    ELSE Scan(s, i + 1)

re_search(s) == Scan(s, 1)

---------------------------------------------------------------------------
(* json.loads on text: objects, arrays, strings with escapes, numbers, the      *)
(* literals true, false, null, NaN, Infinity, -Infinity.  A parse returns the   *)
(* value and the index after it; ok = FALSE is JSONDecodeError.                  *)

Fail     == [ok |-> FALSE, v |-> JNull, i |-> 0]
Ok(v, i) == [ok |-> TRUE, v |-> v, i |-> i]

JsonWs == {32, 9, 10, 13}

RECURSIVE SkipWs(_, _)
SkipWs(s, i) == IF i <= Len(s) /\ s[i] \in JsonWs THEN SkipWs(s, i + 1) ELSE i

StartsAt(s, i, w) == i + Len(w) - 1 <= Len(s) /\ SubSeq(s, i, i + Len(w) - 1) = w

\* the index after the run of digits that starts at i
RECURSIVE DigitsEnd(_, _)
DigitsEnd(s, i) == IF i <= Len(s) /\ s[i] \in Digits THEN DigitsEnd(s, i + 1) ELSE i

RECURSIVE DigitsValue(_, _, _, _)
DigitsValue(s, i, j, acc) ==
    IF i >= j THEN acc ELSE DigitsValue(s, i + 1, j, acc * 10 + (s[i] - 48))

\* the index after the exponent that starts at c, or c when there is none
ExpEnd(s, c, e0) ==
    IF c <= Len(s) /\ s[c] \in {101, 69} /\ e0 <= Len(s) /\ s[e0] \in Digits
    THEN DigitsEnd(s, e0) ELSE c

\* the index after the fraction and exponent that start at b, or b when there is none
FracExpEnd(s, c) ==
    ExpEnd(s, c, IF c + 1 <= Len(s) /\ s[c + 1] \in {43, 45} THEN c + 2 ELSE c + 1)

FracEnd(s, b) ==
    IF b + 1 <= Len(s) /\ s[b] = 46 /\ s[b + 1] \in Digits THEN DigitsEnd(s, b + 1) ELSE b

\* a: the first digit, b: the end of the integer part, d: the end of the number
Number(s, i, a, b, d) ==
    IF d = b
    THEN Ok(JInt(IF s[i] = 45 THEN 0 - DigitsValue(s, a, b, 0) ELSE DigitsValue(s, a, b, 0)), b)
    ELSE Ok(JFloat(SubSeq(s, i, d - 1)), d)

IntPart(s, i, a, b) == Number(s, i, a, b, FracExpEnd(s, FracEnd(s, b)))

\* -?(0|[1-9]\d*)(\.\d+)?([eE][-+]?\d+)? from a on: an int without fraction and exponent
Unsigned(s, i, a) ==
    IF a > Len(s) \/ s[a] \notin Digits THEN Fail
    ELSE IntPart(s, i, a, IF s[a] = 48 THEN a + 1 ELSE DigitsEnd(s, a))

ParseNumber(s, i) == Unsigned(s, i, IF s[i] = 45 THEN i + 1 ELSE i)

HexDigits == (48..57) \cup (65..70) \cup (97..102)
HexVal(c) == IF c \in 48..57 THEN c - 48 ELSE IF c \in 65..70 THEN c - 55 ELSE c - 87

IsHex4(s, i) == i + 3 <= Len(s) /\ \A j \in 0..3 : s[i + j] \in HexDigits
Hex4(s, i)   == HexVal(s[i]) * 4096 + HexVal(s[i + 1]) * 256 + HexVal(s[i + 2]) * 16 + HexVal(s[i + 3])

\* \" \\ \/ \b \f \n \r \t
SimpleEscapes == {34, 92, 47, 98, 102, 110, 114, 116}
Unescape(e) ==
    CASE e = 98  -> 8
      [] e = 102 -> 12
      [] e = 110 -> 10
      [] e = 114 -> 13
      [] e = 116 -> 9
      [] OTHER   -> e

RECURSIVE ParseValue(_, _)
RECURSIVE ParseString(_, _, _)
RECURSIVE ParseElems(_, _, _)
RECURSIVE ParseMembers(_, _, _)

\* a \uXXXX escape at i (the index of the four hex digits); a high surrogate followed
\* by an escaped low surrogate is one character
UnicodeEscape(s, i, acc, u) ==
    IF /\ u \in 55296..56319
       /\ StartsAt(s, i + 4, <<92, 117>>)
       /\ IsHex4(s, i + 6)
       /\ Hex4(s, i + 6) \in 56320..57343
    THEN ParseString(s, i + 10, Append(acc, 65536 + (u - 55296) * 1024 + (Hex4(s, i + 6) - 56320)))
    ELSE ParseString(s, i + 4, Append(acc, u))

\* a character a string holds as it is: not the quote, the backslash or a control
Plain(c) == c >= 32 /\ c # 34 /\ c # 92

\* the index after the run of plain characters that starts at i
PlainEnd(s, i) ==
    CHOOSE j \in i..(Len(s) + 1) : /\ \A m \in i..(j - 1) : Plain(s[m])
                                  /\ (j = Len(s) + 1 \/ ~Plain(s[j]))

\* the text after an opening quote at i - 1; acc: the characters read so far
ParseString(s, i, acc) ==
    IF i > Len(s) THEN Fail
    ELSE IF Plain(s[i])
    THEN ParseString(s, PlainEnd(s, i), acc \o SubSeq(s, i, PlainEnd(s, i) - 1))
    ELSE IF s[i] = 34 THEN Ok(JStr(acc), i + 1)
    ELSE IF s[i] = 92
    THEN IF i + 1 > Len(s) THEN Fail
         ELSE IF s[i + 1] \in SimpleEscapes
         THEN ParseString(s, i + 2, Append(acc, Unescape(s[i + 1])))
         ELSE IF s[i + 1] = 117 /\ IsHex4(s, i + 2)
         THEN UnicodeEscape(s, i + 2, acc, Hex4(s, i + 2))
         ELSE Fail
    ELSE Fail

\* after an element: j is the index of the next token, acc holds the element
ElemNext(s, j, acc) ==
    IF j > Len(s) THEN Fail
    ELSE IF s[j] = 44 THEN ParseElems(s, SkipWs(s, j + 1), acc)
    ELSE IF s[j] = 93 THEN Ok(JList(acc), j + 1)
    ELSE Fail

ElemParsed(s, r, acc) ==
    IF ~r.ok THEN Fail ELSE ElemNext(s, SkipWs(s, r.i), Append(acc, r.v))

\* the elements of an array from i on; acc: the elements read so far
ParseElems(s, i, acc) == ElemParsed(s, ParseValue(s, i), acc)

\* after a member: m is the index of the next token, acc holds the member
MemberNext(s, m, acc) ==
    IF m > Len(s) THEN Fail
    ELSE IF s[m] = 44 THEN ParseMembers(s, SkipWs(s, m + 1), acc)
    ELSE IF s[m] = 125 THEN Ok(JDict(acc), m + 1)
    ELSE Fail

\* a repeated key keeps its last value
MemberParsed(s, vr, key, acc) ==
    IF ~vr.ok THEN Fail ELSE MemberNext(s, SkipWs(s, vr.i), (key :> vr.v) @@ acc)

Colon(s, j, key, acc) ==
    IF j > Len(s) \/ s[j] # 58 THEN Fail
    ELSE MemberParsed(s, ParseValue(s, SkipWs(s, j + 1)), key, acc)

KeyParsed(s, kr, acc) ==
    IF ~kr.ok THEN Fail ELSE Colon(s, SkipWs(s, kr.i), kr.v.s, acc)

\* the members of an object from i on; acc: the members read so far
ParseMembers(s, i, acc) ==
    IF i > Len(s) \/ s[i] # 34 THEN Fail
    ELSE KeyParsed(s, ParseString(s, i + 1, <<>>), acc)

\* j: the index of the first token after '['
ArrayOpen(s, j) ==
    IF j <= Len(s) /\ s[j] = 93 THEN Ok(EmptyList, j + 1) ELSE ParseElems(s, j, <<>>)

\* j: the index of the first token after '{'
ObjectOpen(s, j) ==
    IF j <= Len(s) /\ s[j] = 125 THEN Ok(EmptyDict, j + 1) ELSE ParseMembers(s, j, <<>>)

W_null      == <<110, 117, 108, 108>>                       \* 'null'
W_true      == <<116, 114, 117, 101>>                       \* 'true'
W_false     == <<102, 97, 108, 115, 101>>                   \* 'false'
W_NaN       == <<78, 97, 78>>                               \* 'NaN'
W_Infinity  == <<73, 110, 102, 105, 110, 105, 116, 121>>    \* 'Infinity'
W_mInfinity == <<45, 73, 110, 102, 105, 110, 105, 116, 121>>  \* '-Infinity'

Literal(s, i, w, v) == IF StartsAt(s, i, w) THEN Ok(v, i + Len(w)) ELSE Fail

\* a '-' at i: a number, or -Infinity
Minus(s, i, r) == IF r.ok THEN r ELSE Literal(s, i, W_mInfinity, JFloat(W_mInfinity))

ParseValue(s, i) ==
    IF i > Len(s) THEN Fail
    ELSE CASE s[i] = 34  -> ParseString(s, i + 1, <<>>)
           [] s[i] = 123 -> ObjectOpen(s, SkipWs(s, i + 1))
           [] s[i] = 91  -> ArrayOpen(s, SkipWs(s, i + 1))
           [] s[i] = 110 -> Literal(s, i, W_null, JNull)
           [] s[i] = 116 -> Literal(s, i, W_true, JBool(TRUE))
           [] s[i] = 102 -> Literal(s, i, W_false, JBool(FALSE))
           [] s[i] \in Digits -> ParseNumber(s, i)
           [] s[i] = 45  -> Minus(s, i, ParseNumber(s, i))
           [] s[i] = 78  -> Literal(s, i, W_NaN, JFloat(W_NaN))
           [] s[i] = 73  -> Literal(s, i, W_Infinity, JFloat(W_Infinity))
           [] OTHER      -> Fail

NotParsed == [ok |-> FALSE, v |-> JNull]

\* r: the value parsed after the leading whitespace; nothing but whitespace may follow
Loaded(s, r) ==
    IF r.ok /\ SkipWs(s, r.i) = Len(s) + 1 THEN [ok |-> TRUE, v |-> r.v] ELSE NotParsed

\* json.loads(s)
json_loads(s) == Loaded(s, ParseValue(s, SkipWs(s, 1)))

---------------------------------------------------------------------------
(* bytes.decode(encoding) with errors='strict'; ok = FALSE is UnicodeDecodeError *)

NotDecoded == [ok |-> FALSE, s |-> <<>>]

Cont(b, i) == i <= Len(b) /\ b[i] \in 128..191

Ascii(c) == c < 128

\* the index after the run of ASCII bytes that starts at i
AsciiEnd(b, i) ==
    CHOOSE j \in i..(Len(b) + 1) : /\ \A m \in i..(j - 1) : Ascii(b[m])
                                  /\ (j = Len(b) + 1 \/ ~Ascii(b[j]))

\* sp: errors='surrogatepass', an encoded surrogate is accepted
RECURSIVE Utf8From(_, _, _, _)
Utf8From(b, i, sp, acc) ==
    IF i > Len(b) THEN [ok |-> TRUE, s |-> acc]
    ELSE IF Ascii(b[i])
    THEN Utf8From(b, AsciiEnd(b, i), sp, acc \o SubSeq(b, i, AsciiEnd(b, i) - 1))
    ELSE IF b[i] \in 194..223 /\ Cont(b, i + 1)
    THEN Utf8From(b, i + 2, sp, Append(acc, (b[i] - 192) * 64 + (b[i + 1] - 128)))
    ELSE IF /\ b[i] \in 224..239 /\ Cont(b, i + 1) /\ Cont(b, i + 2)
            /\ (b[i] = 224 => b[i + 1] >= 160)
            /\ (b[i] = 237 => (b[i + 1] <= 159 \/ sp))
    THEN Utf8From(b, i + 3, sp,
             Append(acc, (b[i] - 224) * 4096 + (b[i + 1] - 128) * 64 + (b[i + 2] - 128)))
    ELSE IF /\ b[i] \in 240..244 /\ Cont(b, i + 1) /\ Cont(b, i + 2) /\ Cont(b, i + 3)
            /\ (b[i] = 240 => b[i + 1] >= 144)
            /\ (b[i] = 244 => b[i + 1] <= 143)
    THEN Utf8From(b, i + 4, sp,
             Append(acc, (b[i] - 240) * 262144 + (b[i + 1] - 128) * 4096
                          + (b[i + 2] - 128) * 64 + (b[i + 3] - 128)))
    ELSE NotDecoded

DecodeUtf8(b) == Utf8From(b, 1, FALSE, <<>>)

BOM_UTF8     == <<239, 187, 191>>
BOM_UTF16_LE == <<255, 254>>
BOM_UTF16_BE == <<254, 255>>
BOM_UTF32_LE == <<255, 254, 0, 0>>
BOM_UTF32_BE == <<0, 0, 254, 255>>

\* b without its first m bytes
Drop(b, m) == SubSeq(b, m + 1, Len(b))

Surrogate(u) == u \in 55296..57343

\* the 16-bit unit at bytes a, a + 1; le: little-endian
Unit16(b, a, le) == IF le THEN b[a] + 256 * b[a + 1] ELSE 256 * b[a] + b[a + 1]

Units16(b, le) == [j \in 1..(Len(b) \div 2) |-> Unit16(b, 2 * j - 1, le)]

\* the index after the run of units that are not surrogates and starts at j
BmpEnd(us, j) ==
    CHOOSE e \in j..(Len(us) + 1) : /\ \A m \in j..(e - 1) : ~Surrogate(us[m])
                                   /\ (e = Len(us) + 1 \/ Surrogate(us[e]))

\* units to code points: a surrogate pair is one character, a lone surrogate an error
RECURSIVE Pair16(_, _, _, _)
Pair16(us, j, sp, acc) ==
    IF j > Len(us) THEN [ok |-> TRUE, s |-> acc]
    ELSE IF ~Surrogate(us[j])
    THEN Pair16(us, BmpEnd(us, j), sp, acc \o SubSeq(us, j, BmpEnd(us, j) - 1))
    ELSE IF us[j] <= 56319 /\ j < Len(us) /\ us[j + 1] \in 56320..57343
    THEN Pair16(us, j + 2, sp, Append(acc, 65536 + (us[j] - 55296) * 1024 + (us[j + 1] - 56320)))
    ELSE IF sp THEN Pair16(us, j + 1, sp, Append(acc, us[j]))
    ELSE NotDecoded

\* utf-16-le / utf-16-be: an odd number of bytes is truncated data
DecodeUtf16(b, le, sp) ==
    IF Len(b) % 2 = 1 THEN NotDecoded ELSE Pair16(Units16(b, le), 1, sp, <<>>)

\* utf-16: the byte order mark chooses the order and is dropped; none: little-endian
DecodeUtf16Bom(b, sp) ==
    IF StartsAt(b, 1, BOM_UTF16_LE) THEN DecodeUtf16(Drop(b, 2), TRUE, sp)
    ELSE IF StartsAt(b, 1, BOM_UTF16_BE) THEN DecodeUtf16(Drop(b, 2), FALSE, sp)
    ELSE DecodeUtf16(b, TRUE, sp)

\* the bytes a .. a + 3 from the most significant one
Quad(b, a, le) ==
    IF le THEN <<b[a + 3], b[a + 2], b[a + 1], b[a]>> ELSE <<b[a], b[a + 1], b[a + 2], b[a + 3]>>

\* a code point up to U+10FFFF that is no surrogate
Valid32(q, sp) ==
    /\ q[1] = 0
    /\ q[2] <= 16
    /\ (sp \/ ~Surrogate(q[2] * 65536 + q[3] * 256 + q[4]))

DecodeUtf32(b, le, sp) ==
    IF Len(b) % 4 # 0 THEN NotDecoded
    ELSE IF \E j \in 1..(Len(b) \div 4) : ~Valid32(Quad(b, 4 * j - 3, le), sp) THEN NotDecoded
    ELSE [ok |-> TRUE,
          s |-> [j \in 1..(Len(b) \div 4) |->
                    Quad(b, 4 * j - 3, le)[2] * 65536 + Quad(b, 4 * j - 3, le)[3] * 256
                        + Quad(b, 4 * j - 3, le)[4]]]

DecodeUtf32Bom(b, sp) ==
    IF StartsAt(b, 1, BOM_UTF32_LE) THEN DecodeUtf32(Drop(b, 4), TRUE, sp)
    ELSE IF StartsAt(b, 1, BOM_UTF32_BE) THEN DecodeUtf32(Drop(b, 4), FALSE, sp)
    ELSE DecodeUtf32(b, TRUE, sp)

\* every byte is the code point of the same number
DecodeLatin1(b) == [ok |-> TRUE, s |-> b]

\* the code points of bytes 0x80..0x9F in cp1252; 0 where the byte is undefined
Cp1252High ==
    << 8364, 0, 8218, 402, 8222, 8230, 8224, 8225, 710, 8240, 352, 8249, 338, 0, 381, 0,
       0, 8216, 8217, 8220, 8221, 8226, 8211, 8212, 732, 8482, 353, 8250, 339, 0, 382, 376 >>

Cp1252(c) == IF c \in 128..159 THEN Cp1252High[c - 127] ELSE c

DecodeCp1252(b) ==
    IF \E i \in 1..Len(b) : Cp1252(b[i]) = 0 THEN NotDecoded
    ELSE [ok |-> TRUE, s |-> [i \in 1..Len(b) |-> Cp1252(b[i])]]

DecodeAscii(b) ==
    IF \E i \in 1..Len(b) : ~Ascii(b[i]) THEN NotDecoded ELSE [ok |-> TRUE, s |-> b]

Decode(enc, b) ==
    CASE enc = "utf-8"  -> DecodeUtf8(b)
      [] enc = "utf-16" -> DecodeUtf16Bom(b, FALSE)
      [] enc = "latin1" -> DecodeLatin1(b)
      [] enc = "cp1252" -> DecodeCp1252(b)
      [] enc = "ascii"  -> DecodeAscii(b)

\* json.detect_encoding(b): the encoding json.loads takes a byte string to be in
detect_encoding(b) ==
    IF StartsAt(b, 1, BOM_UTF32_BE) \/ StartsAt(b, 1, BOM_UTF32_LE) THEN "utf-32"
    ELSE IF StartsAt(b, 1, BOM_UTF16_BE) \/ StartsAt(b, 1, BOM_UTF16_LE) THEN "utf-16"
    ELSE IF StartsAt(b, 1, BOM_UTF8) THEN "utf-8-sig"
    ELSE IF Len(b) >= 4 /\ b[1] = 0 THEN (IF b[2] # 0 THEN "utf-16-be" ELSE "utf-32-be")
    ELSE IF Len(b) >= 4 /\ b[2] = 0
    THEN (IF b[3] # 0 \/ b[4] # 0 THEN "utf-16-le" ELSE "utf-32-le")
    ELSE IF Len(b) = 2 /\ b[1] = 0 THEN "utf-16-be"
    ELSE IF Len(b) = 2 /\ b[2] = 0 THEN "utf-16-le"
    ELSE "utf-8"

\* b.decode(enc, 'surrogatepass')
DecodePass(enc, b) ==
    CASE enc = "utf-8"     -> Utf8From(b, 1, TRUE, <<>>)
      [] enc = "utf-8-sig" -> Utf8From(IF StartsAt(b, 1, BOM_UTF8) THEN Drop(b, 3) ELSE b, 1, TRUE, <<>>)
      [] enc = "utf-16"    -> DecodeUtf16Bom(b, TRUE)
      [] enc = "utf-16-le" -> DecodeUtf16(b, TRUE, TRUE)
      [] enc = "utf-16-be" -> DecodeUtf16(b, FALSE, TRUE)
      [] enc = "utf-32"    -> DecodeUtf32Bom(b, TRUE)
      [] enc = "utf-32-le" -> DecodeUtf32(b, TRUE, TRUE)
      [] enc = "utf-32-be" -> DecodeUtf32(b, FALSE, TRUE)

---------------------------------------------------------------------------
(* base64.b64decode(s, validate=False); ok = FALSE is binascii.Error / ValueError *)

NoBytes == [ok |-> FALSE, y |-> <<>>]

\* the 6-bit value of a character of the base64 alphabet, -1 for any other character
B64Value(c) ==
    CASE c \in 65..90  -> c - 65
      [] c \in 97..122 -> c - 71
      [] c \in 48..57  -> c + 4
      [] c = 43        -> 62
      [] c = 47        -> 63
      [] OTHER         -> 0 - 1

\* binascii.a2b_base64 in non-strict mode: characters outside the alphabet are
\* dropped, a completed pad sequence ends the decoding
RECURSIVE A2B(_, _, _, _, _, _)
A2B(s, i, quad, left, pads, out) ==
    IF i > Len(s) THEN (IF quad = 0 THEN [ok |-> TRUE, y |-> out] ELSE NoBytes)
    ELSE IF s[i] = 61
    THEN IF quad >= 2 /\ quad + pads + 1 >= 4 THEN [ok |-> TRUE, y |-> out]
         ELSE A2B(s, i + 1, quad, left, IF quad >= 2 THEN pads + 1 ELSE pads, out)
    ELSE LET v == B64Value(s[i]) IN
         IF v < 0 THEN A2B(s, i + 1, quad, left, pads, out)
         ELSE CASE quad = 0 -> A2B(s, i + 1, 1, v, 0, out)
                [] quad = 1 -> A2B(s, i + 1, 2, v % 16, 0, Append(out, left * 4 + v \div 16))
                [] quad = 2 -> A2B(s, i + 1, 3, v % 4, 0, Append(out, left * 16 + v \div 4))
                [] quad = 3 -> A2B(s, i + 1, 0, 0, 0, Append(out, left * 64 + v))

\* a str argument is first encoded as ASCII
b64decode(s) ==
    IF \E i \in 1..Len(s) : s[i] >= 128 THEN NoBytes ELSE A2B(s, 1, 0, 0, 0, <<>>)

---------------------------------------------------------------------------
(* decode_content *)

IsBytes(v) == v.t = "bytes"

encodings == <<"utf-8", "latin1", "cp1252", "ascii">>

RECURSIVE TryEncodings(_, _)

\* r: json.loads of the decoded text
TextParsed(y, i, r) == IF r.ok THEN r ELSE TryEncodings(y, i + 1)

\* d: the bytes decoded under encodings[i]
BytesDecoded(y, i, d) == IF d.ok THEN TextParsed(y, i, json_loads(d.s)) ELSE TryEncodings(y, i + 1)

\* for encoding in encodings: decode, json.loads, return on the first success
TryEncodings(y, i) ==
    IF i > Len(encodings) THEN NotParsed
    ELSE BytesDecoded(y, i, Decode(encodings[i], y))

\* what str.isspace() accepts
PyWhitespace == {9, 10, 11, 12, 13, 28, 29, 30, 31, 32, 133, 160, 5760} \cup (8192..8202)
                \cup {8232, 8233, 8239, 8287, 12288}

RECURSIVE LStrip(_)
LStrip(s) == IF s # <<>> /\ s[1] \in PyWhitespace THEN LStrip(Tail(s)) ELSE s

RECURSIVE RStrip(_)
RStrip(s) == IF s # <<>> /\ s[Len(s)] \in PyWhitespace THEN RStrip(SubSeq(s, 1, Len(s) - 1)) ELSE s

Strip(s) == RStrip(LStrip(s))

\* startswith('{') and endswith('}')
BraceWrapped(s) == s # <<>> /\ s[1] = 123 /\ s[Len(s)] = 125

Base64Decoded(d) == IF d.ok THEN TryEncodings(d.y, 1) ELSE NotParsed

\* base64.b64decode, then the encodings in turn; any exception is swallowed
Base64Json(s) == Base64Decoded(b64decode(s))

ReturnPcs == {"ret_none", "ret_direct", "ret_trimmed", "ret_base64", "ret_binary"}

At(p, c, r) == [pc |-> p, content |-> c, result |-> r]

\* (mutant) the strategies are reordered: base64 is tried before the direct parse
AfterEmptyCheckBase64First(c) == IF IsStr(c) THEN "base64" ELSE "binary"

\* the statement reached after `if not content: return None`
AfterEmptyCheck(c) == IF IsStr(c) THEN "direct" ELSE "binary"

\* if not content: return None
StepStart(c) ==
    IF ~Truthy(c) THEN At("ret_none", c, JNull) ELSE At(AfterEmptyCheck(c), c, JNull)

\* try: return json.loads(content)          (r: the parse)
StepDirect(c, r) == IF r.ok THEN At("ret_direct", c, r.v) ELSE At("trimmed", c, JNull)

\* content = content.strip(); brace-wrapped: try json.loads again   (c: the stripped text)
StepTrimmed(c, r) ==
    IF BraceWrapped(c) /\ r.ok THEN At("ret_trimmed", JStr(c), r.v)
    ELSE At("base64", JStr(c), JNull)

\* the base64 branch        (r: its parse)
StepBase64(c, r) == IF r.ok THEN At("ret_base64", c, r.v) ELSE At("binary", c, JNull)

\* the raw-binary branch, and the final return None
StepBinary(c, r) == IF r.ok THEN At("ret_binary", c, r.v) ELSE At("ret_none", c, JNull)

\* One step of decode_content from position p with local `content` c: the next
\* position, the local `content` (reassigned by strip) and the value returned
DecodeStep(p, c) ==
    CASE p = "start"   -> StepStart(c)
      [] p = "direct"  -> StepDirect(c, json_loads(c.s))
      [] p = "trimmed" -> StepTrimmed(Strip(c.s), json_loads(Strip(c.s)))
      [] p = "base64"  -> StepBase64(c, Base64Json(c.s))
      [] p = "binary"  -> StepBinary(c, IF IsBytes(c) THEN TryEncodings(c.y, 1) ELSE NotParsed)

RECURSIVE RunDecode(_)
RunDecode(st) == IF st.pc \in ReturnPcs THEN st ELSE RunDecode(DecodeStep(st.pc, st.content))

decode_content(c) == RunDecode(At("start", c, JNull)).result

---------------------------------------------------------------------------
(* extract_orders *)

ZeroTally == [recharge_data |-> 0, buyer_phone |-> 0, nickname |-> 0]

Inc(ps, src) == [ps EXCEPT ![src] = @ + 1]

\* (mutant) the buyer-phone fallback is not guarded: it overrides a recharge-data match
NotPhoneUnguarded(phone) == TRUE

\* `if not phone:` before the buyer-phone fallback
NotPhone(phone) == ~Truthy(phone)

\* Phone extraction (priority order).  exc: a statement of the chain raised.
ResolvePhone(order, buyer_info, ps) ==
    LET accept_info == Get(order, K_acceptInfo, EmptyDict) IN
    IF ~IsDict(accept_info) THEN [exc |-> TRUE, phone |-> EmptyStr, ps |-> ps]
    ELSE
    LET recharge_data == Get(accept_info, K_rechargeData, EmptyDict) IN
    IF ~IsDict(recharge_data) THEN [exc |-> TRUE, phone |-> EmptyStr, ps |-> ps]
    ELSE
    LET rc_content == Get(recharge_data, K_content, EmptyStr) IN
    IF Truthy(rc_content) /\ ~IsStr(rc_content) THEN [exc |-> TRUE, phone |-> EmptyStr, ps |-> ps]
    ELSE
    LET m1     == IF Truthy(rc_content) THEN re_search(rc_content.s) ELSE NoMatch
        phone1 == IF m1.found THEN JStr(m1.group) ELSE EmptyStr
        ps1    == IF m1.found THEN Inc(ps, "recharge_data") ELSE ps
    IN
    IF NotPhone(phone1) /\ ~IsDict(buyer_info) THEN [exc |-> TRUE, phone |-> phone1, ps |-> ps1]
    ELSE
    LET phone2 == IF NotPhone(phone1) THEN Get(buyer_info, K_phone, EmptyStr) ELSE phone1
        ps2    == IF NotPhone(phone1) /\ Truthy(phone2) THEN Inc(ps1, "buyer_phone") ELSE ps1
    IN
    IF ~Truthy(phone2)
    THEN LET nick == Get(buyer_info, K_nickName, EmptyStr) IN
         IF ~IsStr(nick) THEN [exc |-> TRUE, phone |-> phone2, ps |-> ps2]
         ELSE LET m3 == re_search(nick.s) IN
              IF m3.found
              THEN [exc |-> FALSE, phone |-> JStr(m3.group), ps |-> Inc(ps2, "nickname")]
              ELSE [exc |-> FALSE, phone |-> phone2, ps |-> ps2]
    ELSE [exc |-> FALSE, phone |-> phone2, ps |-> ps2]

\* The loop body on a mapping entry.  exc: an exception left the body.
OrderBody(order, os, ps) ==
    LET buyer_info  == Get(order, K_buyerInfo, EmptyDict)
        common_info == Get(order, K_commonInfo, EmptyDict)
        r           == ResolvePhone(order, buyer_info, ps)
    IN
    IF r.exc THEN [exc |-> TRUE, orders |-> os, ps |-> r.ps]
    ELSE IF ~IsDict(common_info) \/ ~IsDict(buyer_info)
    THEN [exc |-> TRUE, orders |-> os, ps |-> r.ps]
    ELSE [exc |-> FALSE,
          orders |-> Append(os, [OrderID       |-> Get(common_info, K_orderId, EmptyStr),
                                 BuyerNickname |-> Get(buyer_info, K_nickName, EmptyStr),
                                 Status        |-> Get(common_info, K_statusStr, EmptyStr),
                                 Phone         |-> r.phone]),
          ps |-> r.ps]

\* (mutant) the isinstance test is missing: a non-mapping entry raises in order.get
OrderStepNoSkip(order, os, ps) ==
    IF ~IsDict(order) THEN [exc |-> TRUE, orders |-> os, ps |-> ps]
    ELSE OrderBody(order, os, ps)

\* One iteration of `for order in order_list`: a non-mapping entry is skipped.
OrderStep(order, os, ps) ==
    IF ~IsDict(order) THEN [exc |-> FALSE, orders |-> os, ps |-> ps]
    ELSE OrderBody(order, os, ps)

\* (mutant) the except clause returns an empty list
ExceptClauseDrops(os) == <<>>

\* `except Exception: pass`: the records collected so far are kept
ExceptClause(os) == os

\* the whole loop from entry i on, as extract_data calls it
RECURSIVE OrderLoop(_, _, _, _)
OrderLoop(ol, i, os, ps) ==
    IF i > Len(ol) THEN [orders |-> os, ps |-> ps]
    ELSE LET r == OrderStep(ol[i], os, ps) IN
         IF r.exc THEN [orders |-> ExceptClause(r.orders), ps |-> r.ps]
         ELSE OrderLoop(ol, i + 1, r.orders, r.ps)

\* the payload passes the guards and its order list can be iterated
EntersLoop(d) ==
    /\ IsDict(d)
    /\ ~NotEqualZero(Get(d, K_code, JNull))
    /\ Iterable(Get(d, K_orderList, EmptyList))

extract_orders(d) ==
    IF EntersLoop(d)
    THEN OrderLoop(Iter(Get(d, K_orderList, EmptyList)), 1, <<>>, ZeroTally)
    ELSE [orders |-> <<>>, ps |-> ZeroTally]

---------------------------------------------------------------------------
(* extract_data *)

K_log      == <<108, 111, 103>>                             \* 'log'
K_entries  == <<101, 110, 116, 114, 105, 101, 115>>         \* 'entries'
K_request  == <<114, 101, 113, 117, 101, 115, 116>>         \* 'request'
K_url      == <<117, 114, 108>>                             \* 'url'
K_response == <<114, 101, 115, 112, 111, 110, 115, 101>>    \* 'response'
K_text     == <<116, 101, 120, 116>>                        \* 'text'
K_mimeType == <<109, 105, 109, 101, 84, 121, 112, 101>>     \* 'mimeType'
M_orderSearch == <<111, 114, 100, 101, 114, 83, 101, 97, 114, 99, 104>>     \* 'orderSearch'
M_unknown     == <<117, 110, 107, 110, 111, 119, 110>>                      \* 'unknown'
M_applicationJson ==                                                        \* 'application/json'
    <<97, 112, 112, 108, 105, 99, 97, 116, 105, 111, 110, 47, 106, 115, 111, 110>>

\* the values `x in v` is defined on; on any other value it raises TypeError
Container(v) == v.t \in {"str", "list", "dict"}

\* `x in v` for a text x: a substring of a str, an item of a list, a key of a dict
In(x, v) ==
    CASE v.t = "str"  -> \E j \in 1..(Len(v.s) - Len(x) + 1) : SubSeq(v.s, j, j + Len(x) - 1) = x
      [] v.t = "list" -> \E j \in DOMAIN v.l : v.l[j] = JStr(x)
      [] v.t = "dict" -> x \in DOMAIN v.d

\* str.lower() on ASCII text
Lower(s) == [j \in DOMAIN s |-> IF s[j] \in 65..90 THEN s[j] + 32 ELSE s[j]]

\* what one entry adds: caught = an exception reached `except Exception: continue`
Skip   == [caught |-> FALSE, orders |-> <<>>, ps |-> ZeroTally]
Caught == [caught |-> TRUE, orders |-> <<>>, ps |-> ZeroTally]

\* if orders: extended_data.extend(orders), and the tally is added
Extracted(r) == IF r.orders # <<>> THEN [caught |-> FALSE, orders |-> r.orders, ps |-> r.ps] ELSE Skip

\* data = decode_content(...); if not data: continue; extract_orders(data)
Decoded(d) == IF ~Truthy(d) THEN Skip ELSE Extracted(extract_orders(d))

\* the MIME test on mime_type
NotJson(mime_type) ==
    ~IsStr(mime_type) \/ ~StartsAt(Lower(mime_type.s), 1, M_applicationJson)

\* the statements on `content`, the response's content object
ContentStep(c) ==
    IF ~Truthy(c) THEN Skip
    ELSE IF ~IsDict(c) THEN Caught
    ELSE IF ~Truthy(Get(c, K_text, JNull)) THEN Skip
    ELSE IF NotJson(Get(c, K_mimeType, JStr(M_unknown))) THEN Skip
    ELSE Decoded(decode_content(Get(c, K_text, EmptyStr)))

ResponseStep(response) ==
    IF ~IsDict(response) THEN Caught ELSE ContentStep(Get(response, K_content, EmptyDict))

\* (mutant) the marker test is missing: every exchange is read
LacksMarkerNever(url) == FALSE

\* 'orderSearch' not in url
LacksMarker(url) == ~In(M_orderSearch, url)

UrlStep(entry, url) ==
    IF ~Container(url) THEN Caught
    ELSE IF LacksMarker(url) THEN Skip
    ELSE ResponseStep(Get(entry, K_response, EmptyDict))

RequestStep(entry, request) ==
    IF ~IsDict(request) THEN Caught ELSE UrlStep(entry, Get(request, K_url, EmptyStr))

\* One iteration of `for entry in entries`, the try body with its except clause
EntryStep(entry) ==
    IF ~IsDict(entry) THEN Caught ELSE RequestStep(entry, Get(entry, K_request, EmptyDict))

\* for k, v in phone_sources.items(): total_phone_sources[k] += v
AddTally(total, ps) == [src \in DOMAIN total |-> total[src] + ps[src]]

\* The statements before the loop body.  to: "done" (the early return), "raised"
\* (a TypeError that nothing catches) or "loop", with the sequence to iterate.
GoTo(p, es) == [to |-> p, entries |-> es]

\* entries = har_data['log']['entries']; for entry in entries
Entries(log) ==
    IF ~IsDict(log) THEN GoTo("raised", <<>>)
    ELSE IF ~Iterable(log.d[K_entries]) THEN GoTo("raised", <<>>)
    ELSE GoTo("loop", Iter(log.d[K_entries]))

\* 'entries' not in har_data['log']
LogGuard(log) ==
    IF ~Container(log) THEN GoTo("raised", <<>>)
    ELSE IF ~In(K_entries, log) THEN GoTo("done", <<>>)
    ELSE Entries(log)

\* if not har_data or 'log' not in har_data or ...: return
Guard(h) ==
    IF ~Truthy(h) THEN GoTo("done", <<>>)
    ELSE IF ~Container(h) THEN GoTo("raised", <<>>)
    ELSE IF ~In(K_log, h) THEN GoTo("done", <<>>)
    ELSE IF ~IsDict(h) THEN GoTo("raised", <<>>)
    ELSE LogGuard(h.d[K_log])

\* the loop from entry j on: the records and the tally returned
RECURSIVE EntryLoop(_, _, _, _)
Looped(es, j, r, acc, total) == EntryLoop(es, j + 1, acc \o r.orders, AddTally(total, r.ps))

EntryLoop(es, j, acc, total) ==
    IF j > Len(es) THEN [raised |-> FALSE, rows |-> acc, ps |-> total]
    ELSE Looped(es, j, EntryStep(es[j]), acc, total)

Guarded(g) ==
    IF g.to = "raised" THEN [raised |-> TRUE, rows |-> <<>>, ps |-> ZeroTally]
    ELSE EntryLoop(g.entries, 1, <<>>, ZeroTally)

\* extract_data(har_data) as the driver calls it; raised: an exception left the function
extract_data(h) == Guarded(Guard(h))

---------------------------------------------------------------------------
(* har_bytes_to_json *)

har_encodings == <<"utf-8", "utf-16", "latin1">>

BytesText(d) == IF d.ok THEN json_loads(d.s) ELSE NotParsed

\* json.loads(b) on a byte string: detect the encoding, decode, parse
json_loads_bytes(b) == BytesText(DecodePass(detect_encoding(b), b))

\* the last-ditch try; `except Exception: return None`
LastDitch(r) == IF r.ok THEN r.v ELSE JNull

RECURSIVE LoadFrom(_, _)

HarParsed(b, j, r) == IF r.ok THEN r.v ELSE LoadFrom(b, j + 1)

HarDecoded(b, j, d) == IF d.ok THEN HarParsed(b, j, json_loads(d.s)) ELSE LoadFrom(b, j + 1)

\* for enc in (...): return json.loads(b.decode(enc)) on the first success
LoadFrom(b, j) ==
    IF j > Len(har_encodings) THEN LastDitch(json_loads_bytes(b))
    ELSE HarDecoded(b, j, Decode(har_encodings[j], b))

har_bytes_to_json(b) == LoadFrom(b, 1)

---------------------------------------------------------------------------
(* to_csv_bytes *)

ZWSP == 8203        \* '​', the zero-width space

\* the header of each column, by the field of the record
fieldnames ==
    [OrderID       |-> <<79, 114, 100, 101, 114, 32, 73, 68>>,                              \* 'Order ID'
     BuyerNickname |-> <<66, 117, 121, 101, 114, 32, 78, 105, 99, 107, 110, 97, 109, 101>>, \* 'Buyer Nickname'
     Status        |-> <<83, 116, 97, 116, 117, 115>>,                                      \* 'Status'
     Phone         |-> <<25163, 26426, 21495>>]                                             \* the phone column

field_order == <<"OrderID", "BuyerNickname", "Status", "Phone">>

RECURSIVE DecimalText(_)
DecimalText(m) == IF m < 10 THEN <<48 + m>> ELSE Append(DecimalText(m \div 10), 48 + (m % 10))

\* str(v) on text, an int, None or a bool
PyStr(v) ==
    CASE v.t = "str"  -> v.s
      [] v.t = "int"  -> IF v.n < 0 THEN <<45>> \o DecimalText(0 - v.n) ELSE DecimalText(v.n)
      [] v.t = "null" -> <<78, 111, 110, 101>>                                  \* 'None'
      [] v.t = "bool" -> IF v.b THEN <<84, 114, 117, 101>> ELSE <<70, 97, 108, 115, 101>>

\* r['Order ID'] = '​' + str(r.get('Order ID', ''))
SafeRow(r) == [r EXCEPT !.OrderID = JStr(<<ZWSP>> \o PyStr(r.OrderID))]

\* the text the writer gives a value: None is written as the empty text
CsvText(v) == IF v.t = "null" THEN <<>> ELSE PyStr(v)

\* (mutant) a quote inside a field is written as it is
QuotesKept(x) == x

\* a quote inside a field is doubled
DoubleQuotes(x) == Cat([j \in 1..Len(x) |-> IF x[j] = 34 THEN <<34, 34>> ELSE <<x[j]>>])

\* QUOTE_ALL: every field is written between quotes
Quoted(x) == <<34>> \o DoubleQuotes(x) \o <<34>>

\* one row: the fields separated by commas, ended by '\r\n'
CsvLine(xs) ==
    Cat([j \in 1..Len(xs) |-> IF j = 1 THEN Quoted(xs[j]) ELSE <<44>> \o Quoted(xs[j])])
        \o <<13, 10>>

\* writer.writeheader()
HeaderLine == CsvLine([j \in 1..Len(field_order) |-> fieldnames[field_order[j]]])

\* the line writer.writerows writes for one record
RowLine(r) == CsvLine([j \in 1..Len(field_order) |-> CsvText(r[field_order[j]])])

\* the UTF-8 bytes of a code point
Utf8Bytes(c) ==
    IF c < 128 THEN <<c>>
    ELSE IF c < 2048 THEN <<192 + (c \div 64), 128 + (c % 64)>>
    ELSE IF c < 65536
    THEN <<224 + (c \div 4096), 128 + ((c \div 64) % 64), 128 + (c % 64)>>
    ELSE <<240 + (c \div 262144), 128 + ((c \div 4096) % 64), 128 + ((c \div 64) % 64),
           128 + (c % 64)>>

\* str.encode('utf-8-sig'): the signature, then UTF-8; a surrogate raises UnicodeEncodeError
EncodeUtf8Sig(x) ==
    IF \E j \in 1..Len(x) : Surrogate(x[j]) THEN [raised |-> TRUE, y |-> <<>>]
    ELSE [raised |-> FALSE, y |-> BOM_UTF8 \o Cat([j \in 1..Len(x) |-> Utf8Bytes(x[j])])]

\* to_csv_bytes(rows) as the driver calls it; raised: an exception left the function
to_csv_bytes(rs) ==
    IF rs = <<>> THEN [raised |-> FALSE, y |-> <<>>]
    ELSE EncodeUtf8Sig(HeaderLine \o Cat([j \in 1..Len(rs) |-> RowLine(SafeRow(rs[j]))]))

---------------------------------------------------------------------------
(* Payloads drawn for extract_orders *)

T_phoneA    == <<49, 51, 57, 49, 50, 51, 52, 53, 54, 55, 56>>    \* '13912345678'
T_phoneB    == <<49, 51, 56, 49, 50, 51, 52, 53, 54, 55, 56>>    \* '13812345678'
T_nickPhone == <<65, 108, 105, 99, 101, 32, 49, 51, 57, 49, 50, 51, 52, 53, 54, 55, 56>>  \* 'Alice 13912345678'
T_noPhone   == <<49, 50, 57, 49, 50, 51, 52, 53, 54, 55, 56>>    \* '12912345678'
T_twoPhones == <<49, 49, 51, 56, 49, 50, 51, 52, 53, 54, 55, 56, 32, 49, 51, 57, 49, 50, 51, 52, 53, 54, 55, 56>>  \* '113812345678 13912345678'
T_Al        == <<65, 108>>                                        \* 'Al'
T_Done      == <<68, 111, 110, 101>>                              \* 'Done'
T_123       == <<49, 50, 51>>                                     \* '123'

Missing == <<>>     \* a key that is absent: no pair is added to the dict

AcceptOpts ==
    { Missing,
      K_acceptInfo :> JDict(K_rechargeData :> JNull),
      K_acceptInfo :> JDict(K_rechargeData :> JDict(K_content :> JStr(T_twoPhones))),
      K_acceptInfo :> JDict(K_rechargeData :> JDict(K_content :> JStr(T_noPhone))) }

BuyerOpts ==
    { Missing,
      K_buyerInfo :> JNull,
      K_buyerInfo :> JDict((K_phone :> JStr(T_phoneB)) @@ (K_nickName :> JStr(T_nickPhone))),
      K_buyerInfo :> JDict((K_phone :> EmptyStr) @@ (K_nickName :> JStr(T_nickPhone))),
      K_buyerInfo :> JDict(K_nickName :> JStr(T_Al)),
      K_buyerInfo :> JDict(K_nickName :> JNull) }

CommonFull ==
    K_commonInfo :> JDict((K_orderId :> JStr(T_123)) @@ (K_statusStr :> JStr(T_Done)))

OrderSet ==
    { JDict(a @@ b @@ CommonFull) : a \in AcceptOpts, b \in BuyerOpts }
    \cup
    { JInt(5), JStr(T_Al), EmptyDict,
      JDict(K_acceptInfo :> JNull),
      JDict(K_acceptInfo :> JDict(K_rechargeData :> JDict(K_content :> JInt(7)))),
      JDict(K_buyerInfo :> JDict(K_phone :> JInt(5))),
      JDict((K_buyerInfo :> JDict(K_phone :> JStr(T_phoneB))) @@ (K_commonInfo :> JNull)),
      JDict((K_buyerInfo :> JDict(K_phone :> JNull)) @@ (K_commonInfo :> JDict(K_orderId :> JInt(123)))) }

OrderLists == UNION { [1..n -> OrderSet] : n \in 0..MaxOrders }

Payload(code, ol) == JDict((K_code :> code) @@ (K_orderList :> ol))

PayloadSet ==
    { Payload(JInt(0), JList(ol)) : ol \in OrderLists }
    \cup
    { Payload(c, JList(<<o>>)) :
        c \in {JInt(1), JBool(FALSE), JBool(TRUE), JStr(<<48>>), JNull}, o \in OrderSet }
    \cup
    { JDict(K_orderList :> JList(<<o>>)) : o \in OrderSet }
    \cup
    { Payload(JInt(0), ol) : ol \in {JNull, JInt(3), JStr(T_Al), EmptyDict, CHOOSE o \in OrderSet : IsDict(o) /\ Truthy(o)} }
    \cup
    { JDict(K_code :> JInt(0)), JNull, JInt(0), EmptyStr, EmptyList, JList(<<EmptyDict>>) }

---------------------------------------------------------------------------
(* extract_orders, one loop iteration at a time *)

\* the locals of a function that is not running
IdleOrders ==
    /\ data = JNull
    /\ order_list = <<>>
    /\ k = 0
    /\ orders = <<>>
    /\ phone_sources = ZeroTally

IdleDecode ==
    /\ body = JNull
    /\ content = JNull
    /\ result = JNull

IdleData ==
    /\ har_data = JNull
    /\ entries = <<>>
    /\ entry_index = 0
    /\ extracted_data = <<>>
    /\ total_phone_sources = ZeroTally

IdleCsv ==
    /\ rows = <<>>
    /\ safe_rows = <<>>
    /\ row_index = 0
    /\ buf = <<>>
    /\ csv_bytes = <<>>

IdleDriver ==
    /\ uploaded = <<>>
    /\ file_index = 0
    /\ all_rows = <<>>
    /\ totals = ZeroTally

InitOrders ==
    /\ pc = "start"
    /\ exc = "none"
    /\ data \in PayloadSet
    /\ order_list = <<>>
    /\ k = 0
    /\ orders = <<>>
    /\ phone_sources = ZeroTally
    /\ IdleDecode
    /\ IdleData
    /\ IdleCsv
    /\ IdleDriver

\* the guards and the evaluation of the loop's iterable
Enter ==
    /\ pc = "start"
    /\ IF ~IsDict(data) THEN pc' = "done" /\ exc' = exc /\ order_list' = order_list /\ k' = k
       ELSE IF NotEqualZero(Get(data, K_code, JNull))
       THEN pc' = "done" /\ exc' = exc /\ order_list' = order_list /\ k' = k
       ELSE IF ~Iterable(Get(data, K_orderList, EmptyList))
       THEN pc' = "done" /\ exc' = "caught" /\ order_list' = order_list /\ k' = k
       ELSE pc' = "loop" /\ exc' = exc /\ k' = 1
            /\ order_list' = Iter(Get(data, K_orderList, EmptyList))
    /\ UNCHANGED <<data, orders, phone_sources, decodeVars, dataVars, csvVars, driverVars>>

\* the loop body on entry k; an exception ends the loop in the except clause
ProcessOrder ==
    /\ pc = "loop"
    /\ k <= Len(order_list)
    /\ LET r == OrderStep(order_list[k], orders, phone_sources) IN
        /\ orders' = (IF r.exc THEN ExceptClause(r.orders) ELSE r.orders)
        /\ phone_sources' = r.ps
        /\ IF r.exc THEN pc' = "done" /\ exc' = "caught" /\ k' = k
                    ELSE pc' = pc /\ exc' = exc /\ k' = k + 1
    /\ UNCHANGED <<data, order_list, decodeVars, dataVars, csvVars, driverVars>>

\* the list is exhausted: return orders, phone_sources
Return ==
    /\ pc = "loop"
    /\ k > Len(order_list)
    /\ pc' = "done"
    /\ UNCHANGED <<exc, ordersVars, decodeVars, dataVars, csvVars, driverVars>>

NextOrders == Enter \/ ProcessOrder \/ Return

SpecOrders == InitOrders /\ [][NextOrders]_vars

---------------------------------------------------------------------------
(* decode_content, one strategy at a time *)

\* every concatenation of at most MaxTokens fragments
Concats(frags) == { Cat(ts) : ts \in UNION { [1..n -> frags] : n \in 0..MaxTokens } }

TextFragments ==
    { <<34>>,                   \* '"'
      <<77, 81, 61, 61>>,       \* 'MQ==', the base64 of '1'
      <<101, 51, 48, 61>>,      \* 'e30=', the base64 of '{}'
      <<123>>,                  \* '{'
      <<125>>,                  \* '}'
      <<12>>,                   \* form feed: stripped by str.strip, not JSON whitespace
      <<49>> }                  \* '1'

ByteFragments ==
    { <<49>>,                   \* b'1'
      <<34>>,                   \* b'"'
      <<123, 125>>,             \* b'{}'
      <<195, 169>>,             \* U+00E9 in UTF-8
      <<255>> }                 \* a byte no UTF-8 text holds

DecodeInputs ==
    { JStr(s) : s \in Concats(TextFragments) }
    \cup { JBytes(y) : y \in Concats(ByteFragments) }
    \cup { JNull, JInt(0), JInt(5), EmptyDict, JDict(K_code :> JInt(0)), JList(<<JInt(1)>>) }

InitDecode ==
    /\ pc = "start"
    /\ exc = "none"
    /\ body \in DecodeInputs
    /\ content = body
    /\ result = JNull
    /\ IdleOrders
    /\ IdleData
    /\ IdleCsv
    /\ IdleDriver

\* the step of decode_content at the current position leads to st
DecodeAct(st) ==
    /\ pc' = st.pc
    /\ content' = st.content
    /\ result' = st.result
    /\ UNCHANGED <<exc, body, ordersVars, dataVars, csvVars, driverVars>>

CheckEmpty  == pc = "start" /\ DecodeAct(DecodeStep("start", content))
DirectJson  == pc = "direct" /\ DecodeAct(DecodeStep("direct", content))
TrimmedJson == pc = "trimmed" /\ DecodeAct(DecodeStep("trimmed", content))
Base64      == pc = "base64" /\ DecodeAct(DecodeStep("base64", content))
Binary      == pc = "binary" /\ DecodeAct(DecodeStep("binary", content))

NextDecode == CheckEmpty \/ DirectJson \/ TrimmedJson \/ Base64 \/ Binary

SpecDecode == InitDecode /\ [][NextDecode]_vars

---------------------------------------------------------------------------
(* extract_data, one entry at a time *)

\* '/orderSearch?p=1'
U_search == <<47, 111, 114, 100, 101, 114, 83, 101, 97, 114, 99, 104, 63, 112, 61, 49>>
\* '/orderList'
U_list == <<47, 111, 114, 100, 101, 114, 76, 105, 115, 116>>
\* 'Application/JSON; charset=utf-8'
Mime_caps == <<65, 112, 112, 108, 105, 99, 97, 116, 105, 111, 110, 47, 74, 83, 79, 78, 59, 32,
    99, 104, 97, 114, 115, 101, 116, 61, 117, 116, 102, 45, 56>>
\* 'text/html'
Mime_html == <<116, 101, 120, 116, 47, 104, 116, 109, 108>>
\* '{"code":0,"orderList":[{"commonInfo":{"orderId":"7"},"buyerInfo":{"phone":"13912345678"}}]}'
P_one == <<123, 34, 99, 111, 100, 101, 34, 58, 48, 44, 34, 111, 114, 100, 101, 114, 76, 105,
    115, 116, 34, 58, 91, 123, 34, 99, 111, 109, 109, 111, 110, 73, 110, 102, 111, 34, 58, 123,
    34, 111, 114, 100, 101, 114, 73, 100, 34, 58, 34, 55, 34, 125, 44, 34, 98, 117, 121, 101,
    114, 73, 110, 102, 111, 34, 58, 123, 34, 112, 104, 111, 110, 101, 34, 58, 34, 49, 51, 57,
    49, 50, 51, 52, 53, 54, 55, 56, 34, 125, 125, 93, 125>>
\* '{"code":0,"orderList":[{"buyerInfo":{"nickName":"Al"}},{"buyerInfo":{"phone":"13812345678"}}]}'
P_two == <<123, 34, 99, 111, 100, 101, 34, 58, 48, 44, 34, 111, 114, 100, 101, 114, 76, 105,
    115, 116, 34, 58, 91, 123, 34, 98, 117, 121, 101, 114, 73, 110, 102, 111, 34, 58, 123, 34,
    110, 105, 99, 107, 78, 97, 109, 101, 34, 58, 34, 65, 108, 34, 125, 125, 44, 123, 34, 98,
    117, 121, 101, 114, 73, 110, 102, 111, 34, 58, 123, 34, 112, 104, 111, 110, 101, 34, 58, 34,
    49, 51, 56, 49, 50, 51, 52, 53, 54, 55, 56, 34, 125, 125, 93, 125>>
\* '{"code":1,"orderList":[{"buyerInfo":{"phone":"13912345678"}}]}'
P_refused == <<123, 34, 99, 111, 100, 101, 34, 58, 49, 44, 34, 111, 114, 100, 101, 114, 76, 105,
    115, 116, 34, 58, 91, 123, 34, 98, 117, 121, 101, 114, 73, 110, 102, 111, 34, 58, 123, 34,
    112, 104, 111, 110, 101, 34, 58, 34, 49, 51, 57, 49, 50, 51, 52, 53, 54, 55, 56, 34, 125,
    125, 93, 125>>
\* '{"code":0,'
P_cut == <<123, 34, 99, 111, 100, 101, 34, 58, 48, 44>>

Body(mime, text) == JDict((K_mimeType :> mime) @@ (K_text :> JStr(text)))

Exchange(url, c) ==
    JDict((K_request :> JDict(K_url :> JStr(url))) @@ (K_response :> JDict(K_content :> c)))

EntrySet ==
    { Exchange(U_search, Body(JStr(M_applicationJson), P_one)),
      Exchange(U_search, Body(JStr(Mime_caps), P_two)),
      Exchange(U_list, Body(JStr(M_applicationJson), P_one)),     \* no marker in the URL
      Exchange(U_search, Body(JStr(Mime_html), P_one)),           \* not JSON by its MIME type
      Exchange(U_search, JDict(K_text :> JStr(P_one))),           \* no MIME type
      Exchange(U_search, Body(JStr(M_applicationJson), <<>>)),    \* an empty body
      Exchange(U_search, Body(JStr(M_applicationJson), P_cut)),   \* a body that does not decode
      Exchange(U_search, Body(JStr(M_applicationJson), P_refused)),   \* a refused request
      JDict(K_request :> JDict(K_url :> JStr(U_search))),         \* no response
      JInt(5) }                                                   \* not a mapping

EntryLists == UNION { [1..m -> EntrySet] : m \in 0..MaxEntries }

Har(es) == JDict(K_log :> JDict(K_entries :> es))

\* documents without a list of entries
OddDocuments ==
    { JNull, JInt(5), JStr(K_log), JStr(K_url), JList(<<JInt(1)>>), JList(<<JStr(K_log)>>),
      EmptyDict, JDict(K_log :> JNull), JDict(K_log :> EmptyDict), JDict(K_log :> JStr(K_entries)),
      JDict(K_log :> JList(<<JStr(K_entries)>>)), Har(JNull), Har(JInt(5)), Har(JStr(K_url)),
      Har(JDict(K_url :> JInt(1))) }

HarSet == { Har(JList(es)) : es \in EntryLists } \cup OddDocuments

InitData ==
    /\ pc = "start"
    /\ exc = "none"
    /\ har_data \in HarSet
    /\ entries = <<>>
    /\ entry_index = 0
    /\ extracted_data = <<>>
    /\ total_phone_sources = ZeroTally
    /\ IdleOrders
    /\ IdleDecode
    /\ IdleCsv
    /\ IdleDriver

BeginAct(g) ==
    /\ pc' = g.to
    /\ exc' = (IF g.to = "raised" THEN "raised" ELSE exc)
    /\ entries' = g.entries
    /\ entry_index' = (IF g.to = "loop" THEN 1 ELSE entry_index)
    /\ UNCHANGED <<har_data, extracted_data, total_phone_sources, ordersVars, decodeVars, csvVars, driverVars>>

\* the guard, the lookup of the entries and the evaluation of the loop's iterable
Begin == pc = "start" /\ BeginAct(Guard(har_data))

EntryAct(r) ==
    /\ extracted_data' = extracted_data \o r.orders
    /\ total_phone_sources' = AddTally(total_phone_sources, r.ps)
    /\ exc' = (IF r.caught THEN "caught" ELSE exc)
    /\ entry_index' = entry_index + 1
    /\ UNCHANGED <<pc, har_data, entries, ordersVars, decodeVars, csvVars, driverVars>>

\* the loop body on the entry at entry_index
ProcessEntry ==
    /\ pc = "loop"
    /\ entry_index <= Len(entries)
    /\ EntryAct(EntryStep(entries[entry_index]))

\* the entries are exhausted: return extracted_data, total_phone_sources
ReturnData ==
    /\ pc = "loop"
    /\ entry_index > Len(entries)
    /\ pc' = "done"
    /\ UNCHANGED <<exc, dataVars, ordersVars, decodeVars, csvVars, driverVars>>

NextData == Begin \/ ProcessEntry \/ ReturnData

SpecData == InitData /\ [][NextData]_vars

---------------------------------------------------------------------------
(* to_csv_bytes, one statement or loop iteration at a time *)

T_comma   == <<97, 44, 98>>                             \* 'a,b'
T_quotes  == <<115, 97, 121, 32, 34, 104, 105, 34>>     \* 'say "hi"'
T_crlf    == <<120, 13, 10, 121>>                       \* 'x\r\ny'
T_newline == <<23436, 25104, 10>>                       \* two CJK characters and '\n'

RowSet ==
    { [OrderID |-> JStr(id), BuyerNickname |-> JStr(nick), Status |-> JStr(status),
       Phone |-> JStr(IF id = <<>> THEN <<>> ELSE T_phoneA)] :
        id \in {<<>>, T_123, <<ZWSP>> \o T_123},
        nick \in {T_Al, T_comma, T_quotes, T_crlf},
        status \in {T_Done, T_newline} }

RowLists == UNION { [1..m -> RowSet] : m \in 0..MaxRows }

InitCsv ==
    /\ pc = "start"
    /\ exc = "none"
    /\ rows \in RowLists
    /\ safe_rows = <<>>
    /\ row_index = 0
    /\ buf = <<>>
    /\ csv_bytes = <<>>
    /\ IdleOrders
    /\ IdleDecode
    /\ IdleData
    /\ IdleDriver

\* if not rows: return b''
CheckRows ==
    /\ pc = "start"
    /\ IF rows = <<>> THEN pc' = "done" /\ row_index' = row_index
                      ELSE pc' = "safe" /\ row_index' = 1
    /\ UNCHANGED <<exc, rows, safe_rows, buf, csv_bytes,
                   ordersVars, decodeVars, dataVars, driverVars>>

\* one iteration of `for r in rows`: the copy with the prefixed Order ID
CopyRow ==
    /\ pc = "safe"
    /\ row_index <= Len(rows)
    /\ safe_rows' = Append(safe_rows, SafeRow(rows[row_index]))
    /\ row_index' = row_index + 1
    /\ UNCHANGED <<pc, exc, rows, buf, csv_bytes, ordersVars, decodeVars, dataVars, driverVars>>

\* the writer is set up and writes the header
WriteHeader ==
    /\ pc = "safe"
    /\ row_index > Len(rows)
    /\ buf' = HeaderLine
    /\ pc' = "write"
    /\ row_index' = 1
    /\ UNCHANGED <<exc, rows, safe_rows, csv_bytes, ordersVars, decodeVars, dataVars, driverVars>>

\* writer.writerows(safe_rows), one record at a time
WriteRow ==
    /\ pc = "write"
    /\ row_index <= Len(safe_rows)
    /\ buf' = buf \o RowLine(safe_rows[row_index])
    /\ row_index' = row_index + 1
    /\ UNCHANGED <<pc, exc, rows, safe_rows, csv_bytes,
                   ordersVars, decodeVars, dataVars, driverVars>>

EncodeAct(r) ==
    /\ csv_bytes' = r.y
    /\ pc' = (IF r.raised THEN "raised" ELSE "done")
    /\ exc' = (IF r.raised THEN "raised" ELSE exc)
    /\ UNCHANGED <<rows, safe_rows, row_index, buf, ordersVars, decodeVars, dataVars, driverVars>>

\* return buf.getvalue().encode('utf-8-sig')
Encode ==
    /\ pc = "write"
    /\ row_index > Len(safe_rows)
    /\ EncodeAct(EncodeUtf8Sig(buf))

NextCsv == CheckRows \/ CopyRow \/ WriteHeader \/ WriteRow \/ Encode

SpecCsv == InitCsv /\ [][NextCsv]_vars

---------------------------------------------------------------------------
(* The driver loop over the uploaded files *)

\* a capture with one order, its phone in buyerInfo.phone
F_phone == <<123, 34, 108, 111, 103, 34, 58, 123, 34, 101, 110, 116, 114, 105, 101, 115, 34, 58,
    91, 123, 34, 114, 101, 113, 117, 101, 115, 116, 34, 58, 123, 34, 117, 114, 108, 34, 58, 34,
    47, 111, 114, 100, 101, 114, 83, 101, 97, 114, 99, 104, 34, 125, 44, 34, 114, 101, 115, 112,
    111, 110, 115, 101, 34, 58, 123, 34, 99, 111, 110, 116, 101, 110, 116, 34, 58, 123, 34, 109,
    105, 109, 101, 84, 121, 112, 101, 34, 58, 34, 97, 112, 112, 108, 105, 99, 97, 116, 105, 111,
    110, 47, 106, 115, 111, 110, 34, 44, 34, 116, 101, 120, 116, 34, 58, 34, 123, 92, 34, 99,
    111, 100, 101, 92, 34, 58, 48, 44, 92, 34, 111, 114, 100, 101, 114, 76, 105, 115, 116, 92,
    34, 58, 91, 123, 92, 34, 98, 117, 121, 101, 114, 73, 110, 102, 111, 92, 34, 58, 123, 92, 34,
    112, 104, 111, 110, 101, 92, 34, 58, 92, 34, 49, 51, 57, 49, 50, 51, 52, 53, 54, 55, 56, 92,
    34, 125, 125, 93, 125, 34, 125, 125, 125, 93, 125, 125>>
\* a capture with one order, its phone in the nickname
F_nick == <<123, 34, 108, 111, 103, 34, 58, 123, 34, 101, 110, 116, 114, 105, 101, 115, 34, 58,
    91, 123, 34, 114, 101, 113, 117, 101, 115, 116, 34, 58, 123, 34, 117, 114, 108, 34, 58, 34,
    47, 111, 114, 100, 101, 114, 83, 101, 97, 114, 99, 104, 34, 125, 44, 34, 114, 101, 115, 112,
    111, 110, 115, 101, 34, 58, 123, 34, 99, 111, 110, 116, 101, 110, 116, 34, 58, 123, 34, 109,
    105, 109, 101, 84, 121, 112, 101, 34, 58, 34, 97, 112, 112, 108, 105, 99, 97, 116, 105, 111,
    110, 47, 106, 115, 111, 110, 34, 44, 34, 116, 101, 120, 116, 34, 58, 34, 123, 92, 34, 99,
    111, 100, 101, 92, 34, 58, 48, 44, 92, 34, 111, 114, 100, 101, 114, 76, 105, 115, 116, 92,
    34, 58, 91, 123, 92, 34, 98, 117, 121, 101, 114, 73, 110, 102, 111, 92, 34, 58, 123, 92, 34,
    110, 105, 99, 107, 78, 97, 109, 101, 92, 34, 58, 92, 34, 65, 108, 32, 49, 51, 56, 49, 50,
    51, 52, 53, 54, 55, 56, 92, 34, 125, 125, 93, 125, 34, 125, 125, 125, 93, 125, 125>>
\* a capture with a UTF-8 signature: one order without a phone
F_bom == <<239, 187, 191, 123, 34, 108, 111, 103, 34, 58, 123, 34, 101, 110, 116, 114, 105, 101,
    115, 34, 58, 91, 123, 34, 114, 101, 113, 117, 101, 115, 116, 34, 58, 123, 34, 117, 114, 108,
    34, 58, 34, 47, 111, 114, 100, 101, 114, 83, 101, 97, 114, 99, 104, 34, 125, 44, 34, 114,
    101, 115, 112, 111, 110, 115, 101, 34, 58, 123, 34, 99, 111, 110, 116, 101, 110, 116, 34,
    58, 123, 34, 109, 105, 109, 101, 84, 121, 112, 101, 34, 58, 34, 97, 112, 112, 108, 105, 99,
    97, 116, 105, 111, 110, 47, 106, 115, 111, 110, 34, 44, 34, 116, 101, 120, 116, 34, 58, 34,
    123, 92, 34, 99, 111, 100, 101, 92, 34, 58, 48, 44, 92, 34, 111, 114, 100, 101, 114, 76,
    105, 115, 116, 92, 34, 58, 91, 123, 125, 93, 125, 34, 125, 125, 125, 93, 125, 125>>
\* a capture without entries, in UTF-16 with a byte order mark
F_utf16 == <<255, 254, 123, 0, 34, 0, 108, 0, 111, 0, 103, 0, 34, 0, 58, 0, 123, 0, 34, 0, 101,
    0, 110, 0, 116, 0, 114, 0, 105, 0, 101, 0, 115, 0, 34, 0, 58, 0, 91, 0, 93, 0, 125, 0, 125,
    0>>
\* a byte that is no text
F_unreadable == <<255>>
\* '{}'
F_empty == <<123, 125>>
\* '{"log":null}'
F_null_log == <<123, 34, 108, 111, 103, 34, 58, 110, 117, 108, 108, 125>>
\* '[1]'
F_list == <<91, 49, 93>>

FileSet == { F_phone, F_nick, F_bom, F_utf16, F_unreadable, F_empty, F_null_log, F_list }

Uploads == UNION { [1..m -> FileSet] : m \in 0..MaxFiles }

InitDriver ==
    /\ pc = "idle"
    /\ exc = "none"
    /\ uploaded \in Uploads
    /\ file_index = 0
    /\ all_rows = <<>>
    /\ totals = ZeroTally
    /\ IdleOrders
    /\ IdleDecode
    /\ IdleData
    /\ IdleCsv

\* the button is pressed: without a file the run stops with a warning
Run ==
    /\ pc = "idle"
    /\ IF uploaded = <<>> THEN pc' = "stopped" /\ file_index' = file_index
                          ELSE pc' = "files" /\ file_index' = 1
    /\ all_rows' = <<>>
    /\ totals' = ZeroTally
    /\ UNCHANGED <<exc, uploaded, csv_bytes, rows, safe_rows, row_index, buf,
                   ordersVars, decodeVars, dataVars>>

\* st.error for a file that does not parse
NoHar == [raised |-> FALSE, rows |-> <<>>, ps |-> ZeroTally]

\* if not har_obj: st.error(...) else: extract_data(har_obj)
FileStep(har_obj) == IF ~Truthy(har_obj) THEN NoHar ELSE extract_data(har_obj)

\* r: what the file gives.  An exception of extract_data is caught nowhere: the
\* script run ends there.
FileAct(r) ==
    /\ pc' = (IF r.raised THEN "aborted" ELSE pc)
    /\ exc' = (IF r.raised THEN "raised" ELSE exc)
    /\ all_rows' = all_rows \o r.rows
    /\ totals' = AddTally(totals, r.ps)
    /\ file_index' = (IF r.raised THEN file_index ELSE file_index + 1)
    /\ UNCHANGED <<uploaded, csvVars, ordersVars, decodeVars, dataVars>>

\* one iteration of `for i, uf in enumerate(uploaded, start=1)`
ProcessFile ==
    /\ pc = "files"
    /\ file_index <= Len(uploaded)
    /\ FileAct(FileStep(har_bytes_to_json(uploaded[file_index])))

CsvAct(r) ==
    /\ csv_bytes' = r.y
    /\ pc' = (IF r.raised THEN "aborted" ELSE "done")
    /\ exc' = (IF r.raised THEN "raised" ELSE exc)
    /\ UNCHANGED <<rows, safe_rows, row_index, buf, driverVars, ordersVars, decodeVars, dataVars>>

\* after the loop: no record stops the run, else the CSV is built
Finish ==
    /\ pc = "files"
    /\ file_index > Len(uploaded)
    /\ IF all_rows = <<>>
       THEN /\ pc' = "stopped"
            /\ UNCHANGED <<exc, csvVars, driverVars, ordersVars, decodeVars, dataVars>>
       ELSE CsvAct(to_csv_bytes(all_rows))

NextDriver == Run \/ ProcessFile \/ Finish

SpecDriver == InitDriver /\ [][NextDriver]_vars

---------------------------------------------------------------------------
(* What the specification says of an order entry, stated on the entry itself *)

Sub(o, key)  == IF key \in DOMAIN o.d THEN o.d[key] ELSE EmptyDict
Text(o, key) == IF key \in DOMAIN o.d THEN o.d[key] ELSE EmptyStr

\* an 11-digit mobile number: 1, then a digit 3..9, then nine digits
IsMobile(w) == /\ Len(w) = 11
               /\ w[1] = 49
               /\ w[2] \in 51..57
               /\ \A j \in 3..11 : w[j] \in 48..57

MobileStarts(s) == { i \in 1..(Len(s) - 10) : IsMobile(SubSeq(s, i, i + 10)) }
HasMobile(v)    == IsStr(v) /\ MobileStarts(v.s) # {}
FirstMobile(s)  == LET i == CHOOSE i \in MobileStarts(s) : \A j \in MobileStarts(s) : i <= j
                   IN  SubSeq(s, i, i + 10)

AbsentOrDict(o, key) == key \notin DOMAIN o.d \/ IsDict(o.d[key])
AbsentOrStr(o, key)  == key \notin DOMAIN o.d \/ IsStr(o.d[key])

\* buyerInfo, commonInfo, acceptInfo or rechargeData is present and not a mapping
NestedMalformed(o) ==
    /\ IsDict(o)
    /\ \/ ~AbsentOrDict(o, K_buyerInfo)
       \/ ~AbsentOrDict(o, K_commonInfo)
       \/ ~AbsentOrDict(o, K_acceptInfo)
       \/ ~AbsentOrDict(Sub(o, K_acceptInfo), K_rechargeData)

ContentOf(o) == Text(Sub(Sub(o, K_acceptInfo), K_rechargeData), K_content)

\* a mapping with mappings where mappings are expected and text where text is expected
WellFormedOrder(o) ==
    /\ IsDict(o)
    /\ ~NestedMalformed(o)
    /\ IsStr(ContentOf(o))
    /\ AbsentOrStr(Sub(o, K_buyerInfo), K_phone)
    /\ AbsentOrStr(Sub(o, K_buyerInfo), K_nickName)

\* the source the priority chain takes the phone from, and the phone
ChainPhone(o) ==
    LET ctext   == ContentOf(o)
        phone   == Text(Sub(o, K_buyerInfo), K_phone)
        nick    == Text(Sub(o, K_buyerInfo), K_nickName)
    IN  IF HasMobile(ctext)
        THEN [src |-> "recharge_data", phone |-> JStr(FirstMobile(ctext.s))]
        ELSE IF Truthy(phone) THEN [src |-> "buyer_phone", phone |-> phone]
        ELSE IF HasMobile(nick) THEN [src |-> "nickname", phone |-> JStr(FirstMobile(nick.s))]
        ELSE [src |-> "none", phone |-> phone]

\* a mapping entry that is not nested-malformed and still makes the loop body raise:
\* a content that is set and not text, or a nickname searched for a phone that is not text
OtherTypeError(o) ==
    /\ IsDict(o)
    /\ ~NestedMalformed(o)
    /\ \/ (Truthy(ContentOf(o)) /\ ~IsStr(ContentOf(o)))
       \/ (ChainPhone(o).src \in {"nickname", "none"}
             /\ ~IsStr(Text(Sub(o, K_buyerInfo), K_nickName)))

ExpectedRecord(o) ==
    [OrderID       |-> Text(Sub(o, K_commonInfo), K_orderId),
     BuyerNickname |-> Text(Sub(o, K_buyerInfo), K_nickName),
     Status        |-> Text(Sub(o, K_commonInfo), K_statusStr),
     Phone         |-> ChainPhone(o).phone]

\* the records of the mapping entries of a list, in order
ExpectedRecords(ol) ==
    LET ms == SelectSeq(ol, IsDict) IN [i \in 1..Len(ms) |-> ExpectedRecord(ms[i])]

TallySum(ps) == ps.recharge_data + ps.buyer_phone + ps.nickname

CodeIsIntegerZero(d) == K_code \in DOMAIN d.d /\ d.d[K_code] = JInt(0)

\* a successful payload with a list of orders
ListPayload(d) ==
    /\ IsDict(d)
    /\ CodeIsIntegerZero(d)
    /\ K_orderList \in DOMAIN d.d
    /\ IsList(d.d[K_orderList])

---------------------------------------------------------------------------
(* Claims on extract_orders, under SpecOrders *)

\* C1: a payload whose 'code' is not integer zero (missing, non-zero, a string, a
\* boolean, null) yields zero orders and an all-zero tally, whatever 'orderList' holds.
C1_NonZeroCodeYieldsNothing ==
    (pc = "done" /\ IsDict(data) /\ ~CodeIsIntegerZero(data))
        => (orders = <<>> /\ phone_sources = ZeroTally)

\* C2: for a well-formed order the phone is the first pattern match of the
\* recharge-data content if there is one (even when the buyer phone is set), else the
\* buyer phone verbatim if non-empty, else the first match in the nickname, else
\* empty; exactly the counter of the source used goes up by one, none when the phone
\* stays empty.
C2_PhonePriority ==
    [][ (pc = "loop" /\ k <= Len(order_list) /\ WellFormedOrder(order_list[k]))
          => LET c == ChainPhone(order_list[k]) IN
             /\ Len(orders') = Len(orders) + 1
             /\ orders'[Len(orders')].Phone = c.phone
             /\ (c.src = "none" => c.phone = EmptyStr /\ phone_sources' = phone_sources)
             /\ (c.src # "none" => phone_sources' = [phone_sources EXCEPT ![c.src] = @ + 1])
      ]_vars

\* a well-formed order with a pattern in the recharge-data content and a buyer phone
\* has been processed, and its phone was counted under recharge_data
C2_Witness ==
    /\ pc \in {"loop", "done"}
    /\ ListPayload(data)
    /\ k > 1
    /\ \E i \in 1..(k - 1) :
         /\ i <= Len(order_list)
         /\ WellFormedOrder(order_list[i])
         /\ HasMobile(ContentOf(order_list[i]))
         /\ Truthy(Text(Sub(order_list[i], K_buyerInfo), K_phone))
    /\ phone_sources.recharge_data >= 1
    /\ Len(orders) >= 1

\* C6 as stated: a malformed entry (a non-mapping element, or an entry whose
\* buyerInfo, commonInfo, acceptInfo or rechargeData is not a mapping) is skipped
\* individually: every well-formed order after it is still emitted.
C6_MalformedSkippedIndividually ==
    (pc = "done" /\ ListPayload(data))
        => LET ol == data.d[K_orderList].l IN
           \A j \in 1..Len(ol) :
              (WellFormedOrder(ol[j]) /\ \E i \in 1..(j - 1) : ~IsDict(ol[i]) \/ NestedMalformed(ol[i]))
                 => \E m \in 1..Len(orders) : orders[m] = ExpectedRecord(ol[j])

\* the first entry that makes the loop body raise, or Len(ol) + 1
FirstRaising(ol) ==
    LET bad == { i \in 1..Len(ol) : NestedMalformed(ol[i]) \/ OtherTypeError(ol[i]) }
    IN  IF bad = {} THEN Len(ol) + 1 ELSE CHOOSE i \in bad : \A j \in bad : i <= j

\* C6 amended: a non-mapping element is skipped individually; an entry with a nested
\* field that is not a mapping (or another type error) ends the extraction: the
\* records returned are those of the mapping entries before the first such entry.
C6_NonMappingSkippedNestedAborts ==
    (pc = "done" /\ ListPayload(data))
        => LET ol == data.d[K_orderList].l IN
           orders = ExpectedRecords(SubSeq(ol, 1, FirstRaising(ol) - 1))

\* a nested-malformed entry came first and a well-formed order after it: the
\* extraction ended at the first, and the second was not emitted
C6_Witness ==
    /\ pc = "done"
    /\ ListPayload(data)
    /\ LET ol == data.d[K_orderList].l IN
       /\ Len(ol) >= 2
       /\ NestedMalformed(ol[1])
       /\ WellFormedOrder(ol[2])
       /\ orders = <<>>

\* C9: no exception leaves extract_orders, and when entry k raises the records
\* returned are exactly the complete records of the mapping entries before entry k.
C9_FailSoft ==
    /\ exc # "raised"
    /\ (pc = "done" /\ exc = "caught" /\ k >= 1)
          => orders = ExpectedRecords(SubSeq(order_list, 1, k - 1))

\* entry k raised after at least one record had been collected
C9_Witness ==
    /\ pc = "done"
    /\ exc = "caught"
    /\ k >= 2
    /\ Len(orders) >= 1

\* C10: the three counters sum to the number of returned records with a non-empty
\* phone; no counter goes up for an order that is not emitted.
C10_TallyMatchesPhones ==
    pc = "done" =>
        TallySum(phone_sources) = Cardinality({ i \in 1..Len(orders) : Truthy(orders[i].Phone) })

---------------------------------------------------------------------------
(* Claims on decode_content, under SpecDecode *)

ParsesDirectly(b) == IsStr(b) /\ Truthy(b) /\ json_loads(b.s).ok
ParsesTrimmed(b)  == IsStr(b) /\ Truthy(b) /\ ~json_loads(b.s).ok
                     /\ BraceWrapped(Strip(b.s)) /\ json_loads(Strip(b.s)).ok

\* C5: the strategies are tried in a fixed order and the first success wins: a text
\* body that parses as JSON directly (or trimmed, when brace-wrapped) is returned
\* from that step and never passes through the base64 branch, even when it is also
\* base64 of JSON; the base64 branch is reached only after the direct steps failed.
C5_DirectJsonFirst ==
    /\ pc \in {"base64", "ret_base64"} => (~ParsesDirectly(body) /\ ~ParsesTrimmed(body))
    /\ ParsesDirectly(body) =>
          /\ pc \in {"start", "direct", "ret_direct"}
          /\ pc = "ret_direct" => result = json_loads(body.s).v
    /\ ParsesTrimmed(body) =>
          /\ pc \in {"start", "direct", "trimmed", "ret_trimmed"}
          /\ pc = "ret_trimmed" => result = json_loads(Strip(body.s)).v

\* a body returned by the direct parse that is also base64 whose decoded bytes
\* parse as JSON, to a different value
C5_Witness ==
    /\ pc = "ret_direct"
    /\ Base64Json(body.s).ok
    /\ result # Base64Json(body.s).v


---------------------------------------------------------------------------
(* Claims on extract_data, under SpecData *)

Field(v, key) == IF IsDict(v) /\ key \in DOMAIN v.d THEN v.d[key] ELSE JNull

UrlOf(e)  == Field(Field(e, K_request), K_url)
BodyOf(e) == Field(Field(Field(e, K_response), K_content), K_text)
MimeOf(e) == Field(Field(Field(e, K_response), K_content), K_mimeType)

HasMarker(u) ==
    IsStr(u) /\ \E a \in 1..Len(u.s) : \E b \in a..Len(u.s) : SubSeq(u.s, a, b) = M_orderSearch

\* the MIME type starts with 'application/json' whatever the case of its letters
JsonMime(m) ==
    /\ IsStr(m)
    /\ Len(m.s) >= Len(M_applicationJson)
    /\ \A j \in 1..Len(M_applicationJson) :
          \/ m.s[j] = M_applicationJson[j]
          \/ (M_applicationJson[j] \in 97..122 /\ m.s[j] = M_applicationJson[j] - 32)

\* the exchange filter: marker in the URL, a non-empty body, a JSON MIME type, a body that decodes
PassesFilter(e) ==
    /\ HasMarker(UrlOf(e))
    /\ IsStr(BodyOf(e)) /\ BodyOf(e).s # <<>>
    /\ JsonMime(MimeOf(e))
    /\ decode_content(BodyOf(e)) # JNull

\* the orders the body of an exchange holds
OrdersIn(e) == extract_orders(decode_content(BodyOf(e))).orders

RECURSIVE FilteredOrders(_)
FilteredOrders(es) ==
    IF es = <<>> THEN <<>>
    ELSE (IF PassesFilter(Head(es)) THEN OrdersIn(Head(es)) ELSE <<>>) \o FilteredOrders(Tail(es))

\* the entries the loop has gone past
Processed == IF pc = "done" THEN entries ELSE SubSeq(entries, 1, entry_index - 1)

\* C3: the records of extract_data are the concatenation, in entry order, of the
\* orders of the entries that pass the filter: after every iteration, and at the
\* return, extracted_data holds exactly the orders of the filtered entries gone
\* past, nothing dropped, repeated or moved; an entry without the marker adds none.
C3_ConcatenationInEntryOrder ==
    pc \in {"loop", "done"} => extracted_data = FilteredOrders(Processed)

\* two exchanges that pass with different orders around one that lacks the marker
\* and whose body holds orders
C3_Witness ==
    /\ pc = "done"
    /\ Len(entries) = 3
    /\ PassesFilter(entries[1]) /\ OrdersIn(entries[1]) # <<>>
    /\ ~HasMarker(UrlOf(entries[2])) /\ OrdersIn(entries[2]) # <<>>
    /\ PassesFilter(entries[3]) /\ OrdersIn(entries[3]) # <<>>
    /\ OrdersIn(entries[1]) # OrdersIn(entries[3])
    /\ extracted_data = OrdersIn(entries[1]) \o OrdersIn(entries[3])

\* C7: extract_data never raises, whatever parsed JSON value is the capture
\* document: no exception leaves the function.
C7_NeverRaises == exc # "raised"

---------------------------------------------------------------------------
(* Claims on to_csv_bytes, under SpecCsv *)

Newline(c) == c \in {10, 13}

\* the index after the line terminator at i: '\r\n', '\r' or '\n'
AfterNewline(x, i) == IF x[i] = 13 /\ i < Len(x) /\ x[i + 1] = 10 THEN i + 2 ELSE i + 1

\* the index of the first quote from i on, Len(x) + 1 without one
QuoteFrom(x, i) ==
    CHOOSE e \in i..(Len(x) + 1) : /\ \A m \in i..(e - 1) : x[m] # 34
                                   /\ (e = Len(x) + 1 \/ x[e] = 34)

\* the index of the first comma or line terminator from i on, Len(x) + 1 without one
FieldEnd(x, i) ==
    CHOOSE e \in i..(Len(x) + 1) : /\ \A m \in i..(e - 1) : x[m] # 44 /\ ~Newline(x[m])
                                   /\ (e = Len(x) + 1 \/ x[e] = 44 \/ Newline(x[e]))

\* a quoted field from i on (after its opening quote): a doubled quote is one
\* quote, and what follows the closing quote up to the delimiter is kept
RECURSIVE ReadQuoted(_, _, _)
ReadQuoted(x, i, acc) ==
    LET q == QuoteFrom(x, i) IN
    IF q > Len(x) THEN [x |-> acc \o SubSeq(x, i, Len(x)), i |-> Len(x) + 1]
    ELSE IF q < Len(x) /\ x[q + 1] = 34
    THEN ReadQuoted(x, q + 2, acc \o SubSeq(x, i, q))
    ELSE [x |-> acc \o SubSeq(x, i, q - 1) \o SubSeq(x, q + 1, FieldEnd(x, q + 1) - 1),
          i |-> FieldEnd(x, q + 1)]

ReadField(x, i) ==
    IF i <= Len(x) /\ x[i] = 34 THEN ReadQuoted(x, i + 1, <<>>)
    ELSE [x |-> SubSeq(x, i, FieldEnd(x, i) - 1), i |-> FieldEnd(x, i)]

\* the records from the field at i on; row: the fields of the record read so far
RECURSIVE ReadRecord(_, _, _, _)
ReadRecord(x, i, row, out) ==
    IF row = <<>> /\ i > Len(x) THEN out
    ELSE IF row = <<>> /\ Newline(x[i]) THEN ReadRecord(x, AfterNewline(x, i), <<>>, Append(out, <<>>))
    ELSE LET f == ReadField(x, i) IN
         IF f.i > Len(x) THEN Append(out, Append(row, f.x))
         ELSE IF x[f.i] = 44 THEN ReadRecord(x, f.i + 1, Append(row, f.x), out)
         ELSE ReadRecord(x, AfterNewline(x, f.i), <<>>, Append(out, Append(row, f.x)))

\* a CSV reader: comma-separated fields, quoted or not, one record a line
ReadCsv(x) == ReadRecord(x, 1, <<>>, <<>>)

\* the signature removed, the bytes read as UTF-8
Unsigned8(y) == DecodeUtf8(IF StartsAt(y, 1, BOM_UTF8) THEN Drop(y, 3) ELSE y).s

WithoutHeader(rs) == IF rs = <<>> THEN <<>> ELSE Tail(rs)

\* the leading zero-width marker removed from the first field
WithoutMarker(fs) ==
    IF fs # <<>> /\ fs[1] # <<>> /\ fs[1][1] = ZWSP THEN [fs EXCEPT ![1] = Tail(@)] ELSE fs

Reparsed(y) ==
    LET rs == WithoutHeader(ReadCsv(Unsigned8(y))) IN [j \in 1..Len(rs) |-> WithoutMarker(rs[j])]

FieldTexts(r) == <<r.OrderID.s, r.BuyerNickname.s, r.Status.s, r.Phone.s>>

Holds(x, c) == \E j \in 1..Len(x) : x[j] = c

\* C4: the round trip of to_csv_bytes.  The bytes returned for N records of text
\* values, read again as CSV with the signature, the header row and the leading
\* marker of each Order ID removed, are N rows in the same order whose four
\* fields are the four values of the records.
C4_RoundTrip ==
    pc = "done" => Reparsed(csv_bytes) = [j \in 1..Len(rows) |-> FieldTexts(rows[j])]

\* two records serialized, with a quote and a line feed in the first and a comma
\* in the second
C4_Witness ==
    /\ pc = "done"
    /\ Len(rows) = 2
    /\ csv_bytes # <<>>
    /\ Holds(rows[1].BuyerNickname.s, 34)
    /\ Holds(rows[1].Status.s, 10)
    /\ Holds(rows[2].BuyerNickname.s, 44)

---------------------------------------------------------------------------
(* Claims on the driver loop, under SpecDriver *)

\* C8: a bad file never aborts the batch: whatever the uploaded files hold, the
\* run is never ended by an exception in the loop, so every later file is reached.
C8_BadFileNeverAborts == pc # "aborted"

=============================================================================
